---- MODULE Spec2Model ----
(***************************************************************************)
(* Model of the refactoring assistant (src/src/main.rs): the start-up of   *)
(* main, its loop over the files matched by the glob pattern, and          *)
(* process_file with its retry loop (completion call, extraction of the    *)
(* delimited content, write, validation, restore, read-back).              *)
(*                                                                         *)
(* Texts are sequences of tokens.  BeginTag and EndTag stand for the two   *)
(* literal markers; neither marker can overlap an occurrence of the other  *)
(* (each has its only '<' first and its only '>' last), so every string    *)
(* splits uniquely into marker occurrences and other characters, and a     *)
(* byte offset of str::find corresponds to a token position.  "s" is a     *)
(* whitespace character, every other token a non-whitespace character.    *)
(***************************************************************************)
EXTENDS Integers, Sequences, FiniteSets, TLC

\* ---------------------------------------------------------------- bounds
\* Number of paths the glob pattern yields.
NumFiles == 2
\* Largest retry count given on the command line.
MaxRetries == 2
\* Longest completion text explored by the extraction specification.
MaxLen == 4

\* ---------------------------------------------------------------- texts
BeginTag == "B"
EndTag == "E"
WhiteSpace == "s"

\* The characters of the texts the extraction specification enumerates.
Alphabet == {BeginTag, EndTag, WhiteSpace, "a"}

Files == 1..NumFiles

\* Content of the matched files before the run: text ending in a newline.
InitialContent(f) == IF f % 2 = 1 THEN <<"o", WhiteSpace>> ELSE <<"p", WhiteSpace>>

\* Completion texts the model service answers with in the full specification.
Completions ==
    { <<"x", BeginTag, WhiteSpace, "a", WhiteSpace, EndTag, "y">>,
      <<BeginTag, "b", EndTag, BeginTag, "a", EndTag>>,
      <<"x", EndTag>>,
      <<BeginTag, "a">>,
      <<EndTag, BeginTag, "a", EndTag>> }

\* str::find: position of the first occurrence of tok in text, 0 for None.
RECURSIVE FindFrom(_, _, _)
FindFrom(text, tok, i) ==
    IF i > Len(text) THEN 0
    ELSE IF text[i] = tok THEN i
    ELSE FindFrom(text, tok, i + 1)

Find(text, tok) == FindFrom(text, tok, 1)

\* str::trim: the text without its leading and trailing whitespace.
RECURSIVE TrimStart(_)
TrimStart(text) ==
    IF text = <<>> THEN <<>>
    ELSE IF Head(text) = WhiteSpace THEN TrimStart(Tail(text))
    ELSE text

RECURSIVE TrimEnd(_)
TrimEnd(text) ==
    IF text = <<>> THEN <<>>
    ELSE IF text[Len(text)] = WhiteSpace THEN TrimEnd(SubSeq(text, 1, Len(text) - 1))
    ELSE text

Trim(text) == TrimEnd(TrimStart(text))

\* ---------------------------------------------------------------- state
VARIABLES
    pc,                  \* location of main
    n_retries,           \* parsed --n-retries
    validate_command,    \* TRUE when --validate-with is given
    idx,                 \* position of the glob iterator
    disk,                \* content of every matched file
    results,             \* per file: how its entry of the loop ended
    pf_pc,               \* location of process_file
    file,                \* path argument of the running process_file (0: none)
    original_content,
    current_content,
    attempt,
    output,
    transformed_content,
    result,              \* value process_file returned
    trace,               \* history of the running process_file
    effects              \* history: kinds of file and network operations done

vars == << pc, n_retries, validate_command, idx, disk, results, pf_pc, file,
           original_content, current_content, attempt, output,
           transformed_content, result, trace, effects >>

mainVars == << pc, n_retries, validate_command, idx, results >>
localVars == << file, original_content, current_content, attempt, output,
                transformed_content >>

NoText == <<>>

\* One entry of the history of process_file.
Event(op, ok, content) == [op |-> op, k |-> attempt + 1, ok |-> ok, content |-> content]

Init ==
    /\ pc = "args"
    /\ n_retries = 0
    /\ validate_command = FALSE
    /\ idx = 1
    /\ disk = [f \in Files |-> InitialContent(f)]
    /\ results = [f \in Files |-> "none"]
    /\ pf_pc = "idle"
    /\ file = 0
    /\ original_content = NoText
    /\ current_content = NoText
    /\ attempt = 0
    /\ output = NoText
    /\ transformed_content = NoText
    /\ result = "none"
    /\ trace = <<>>
    /\ effects = {}


\* ---------------------------------------------------------------- main
\* Order of the steps of main: argument parsing, instruction loading, the
\* credential, the glob pattern, the loop over the entries, the end.
AfterStepKeyLast(step) ==
    CASE step = "args" -> "instruction"
      [] step = "instruction" -> "glob"
      [] step = "glob" -> "loop"
      [] step = "loop" -> "apikey"
      [] step = "apikey" -> "done"

AfterStep(step) ==
    CASE step = "args" -> "instruction"
      [] step = "instruction" -> "apikey"
      [] step = "apikey" -> "glob"
      [] step = "glob" -> "loop"
      [] step = "loop" -> "done"

\* Lines 16-71: the arguments; a retry count that is no usize panics.
ParseArgs ==
    /\ pc = "args"
    /\ \/ \E n \in 0..MaxRetries, v \in BOOLEAN :
            /\ n_retries' = n
            /\ validate_command' = v
            /\ pc' = AfterStep("args")
       \/ /\ pc' = "aborted_args"
          /\ UNCHANGED << n_retries, validate_command >>
    /\ UNCHANGED << idx, disk, results, pf_pc, localVars, result, trace, effects >>

\* Lines 74-78: the instruction is a literal, or a file that is read.
LoadInstruction ==
    /\ pc = "instruction"
    /\ \E how \in {"literal", "file_read", "file_unreadable"} :
          pc' = IF how = "file_unreadable" THEN "aborted_instruction" ELSE AfterStep("instruction")
    /\ UNCHANGED << n_retries, validate_command, idx, disk, results, pf_pc,
                    localVars, result, trace, effects >>

\* Line 81: the credential of the environment.
LoadApiKey ==
    /\ pc = "apikey"
    /\ \E present \in BOOLEAN :
          pc' = IF present THEN AfterStep("apikey") ELSE "aborted_apikey"
    /\ UNCHANGED << n_retries, validate_command, idx, disk, results, pf_pc,
                    localVars, result, trace, effects >>

\* Line 84: the glob pattern.
ExpandGlob ==
    /\ pc = "glob"
    /\ \E valid \in BOOLEAN :
          pc' = IF valid THEN AfterStep("glob") ELSE "aborted_glob"
    /\ UNCHANGED << n_retries, validate_command, idx, disk, results, pf_pc,
                    localVars, result, trace, effects >>

\* Line 91: an entry the glob iterator could not read is logged and skipped.
GlobEntryError ==
    /\ pc = "loop"
    /\ pf_pc = "idle"
    /\ idx <= NumFiles
    /\ results' = [results EXCEPT ![idx] = "entry_error"]
    /\ idx' = idx + 1
    /\ UNCHANGED << pc, n_retries, validate_command, disk, pf_pc, localVars,
                    result, trace, effects >>

\* Lines 84-95: the iterator is exhausted.
LoopExit ==
    /\ pc = "loop"
    /\ pf_pc = "idle"
    /\ idx > NumFiles
    /\ pc' = AfterStep("loop")
    /\ UNCHANGED << n_retries, validate_command, idx, disk, results, pf_pc,
                    localVars, result, trace, effects >>

\* Lines 87-89: process_file has returned; an error is logged, the loop goes on.
HandleReturn ==
    /\ pc = "loop"
    /\ pf_pc = "returned"
    /\ results' = [results EXCEPT ![file] = result]
    /\ idx' = idx + 1
    /\ pf_pc' = "idle"
    /\ file' = 0
    /\ original_content' = NoText
    /\ current_content' = NoText
    /\ attempt' = 0
    /\ output' = NoText
    /\ transformed_content' = NoText
    /\ result' = "none"
    /\ trace' = <<>>
    /\ UNCHANGED << pc, n_retries, validate_command, disk, effects >>

\* ---------------------------------------------------------------- process_file
Log(op, ok, content) == Append(trace, Event(op, ok, content))

\* process_file returns r (the ? operator, return Ok(()), the final Err).
Return(r) ==
    /\ pf_pc' = "returned"
    /\ result' = r

\* Lines 84-87: the path of the entry the iterator is at.
EntryPathPrevious == IF idx > 1 THEN idx - 1 ELSE idx

EntryPath == idx

\* Lines 87 and 106-108: the call, and the read of the original content.
ReadOriginal ==
    /\ pc = "loop"
    /\ pf_pc = "idle"
    /\ idx <= NumFiles
    /\ file' = EntryPath
    /\ effects' = effects \cup {"read"}
    /\ \E ok \in BOOLEAN :
          /\ trace' = <<Event("snapshot", ok, disk[EntryPath])>>
          /\ IF ok
             THEN /\ original_content' = disk[EntryPath]
                  /\ current_content' = disk[EntryPath]
                  /\ pf_pc' = "loop_head"
                  /\ UNCHANGED result
             ELSE /\ Return("err_io")
                  /\ UNCHANGED << original_content, current_content >>
    /\ UNCHANGED << mainVars, disk, attempt, output, transformed_content >>

\* Line 111: attempt is in the range 0..n_retries.
InRangeInclusive == attempt <= n_retries

InRange == attempt < n_retries

\* Line 187: what process_file returns after the loop.
AfterLoopOk == "ok"

AfterLoop == "Exceeded retry limit"

\* Lines 111 and 187: the range 0..n_retries, and the error after the loop.
LoopHead ==
    /\ pf_pc = "loop_head"
    /\ IF InRange
       THEN /\ pf_pc' = "send"
            /\ UNCHANGED result
       ELSE Return(AfterLoop)
    /\ UNCHANGED << mainVars, disk, localVars, trace, effects >>

\* Lines 112-152: the prompt embeds current_content; the request is sent and
\* the content of the first choice is taken from the response.
Send ==
    /\ pf_pc = "send"
    /\ effects' = effects \cup {"complete"}
    /\ \/ /\ \E e \in {"err_transport", "err_response"} : Return(e)
          /\ trace' = Log("complete", FALSE, current_content)
          /\ UNCHANGED output
       \/ /\ \E text \in Completions : output' = text
          /\ trace' = Log("complete", TRUE, current_content)
          /\ pf_pc' = "extract"
          /\ UNCHANGED result
    /\ UNCHANGED << mainVars, disk, file, original_content, current_content,
                    attempt, transformed_content >>

\* Lines 155-159: the positions of the two tags and the slice between them.
\* Slicing with start > end panics.
Extracted(text) ==
    LET start == Find(text, BeginTag)
        end == Find(text, EndTag)
    IN  IF start = 0 THEN [kind |-> "Start tag not found", content |-> NoText]
        ELSE IF end = 0 THEN [kind |-> "End tag not found", content |-> NoText]
        ELSE IF end < start THEN [kind |-> "panic", content |-> NoText]
        ELSE [kind |-> "ok", content |-> Trim(SubSeq(text, start + 1, end - 1))]

Extract ==
    /\ pf_pc = "extract"
    /\ LET x == Extracted(output)
       IN  /\ trace' = Log("extract", x.kind = "ok", x.content)
           /\ transformed_content' = x.content
           /\ IF x.kind = "ok"
              THEN /\ pf_pc' = "write"
                   /\ UNCHANGED << pc, result >>
              ELSE IF x.kind = "panic"
              THEN /\ pf_pc' = "panicked"
                   /\ pc' = "panicked"
                   /\ UNCHANGED result
              ELSE /\ Return(x.kind)
                   /\ UNCHANGED pc
    /\ UNCHANGED << n_retries, validate_command, idx, results, disk, file,
                    original_content, current_content, attempt, output, effects >>

\* What a failed fs::write leaves in the file: the old content when the file
\* could not be opened, nothing when it was truncated and the write failed.
AfterFailedWrite(f) == {disk[f], NoText}

\* Line 162: the extracted content replaces the file.
Write ==
    /\ pf_pc = "write"
    /\ effects' = effects \cup {"write"}
    /\ \E ok \in BOOLEAN :
          /\ trace' = Log("write", ok, transformed_content)
          /\ IF ok
             THEN /\ disk' = [disk EXCEPT ![file] = transformed_content]
                  /\ pf_pc' = "validate"
                  /\ UNCHANGED result
             ELSE /\ Return("err_io")
                  /\ \E left \in AfterFailedWrite(file) :
                        disk' = [disk EXCEPT ![file] = left]
    /\ UNCHANGED << mainVars, localVars >>

\* Line 172: the attempt is the last one of the range.
LastAttemptOffByOne == attempt = n_retries

LastAttemptAlways == TRUE

LastAttempt == attempt = n_retries - 1

\* Lines 165-181: where process_file goes after the validator's answer.
AfterValidateIgnorePass(r) ==
    CASE r = "error" -> "returned"
      [] r = "pass" -> "readback"
      [] r = "fail" -> IF LastAttempt THEN "restore" ELSE "readback"

AfterValidate(r) ==
    CASE r = "error" -> "returned"
      [] r = "pass" -> "returned"
      [] r = "fail" -> IF LastAttempt THEN "restore" ELSE "readback"

\* Lines 190-197: the outcomes of running the command with sh -c: exit status
\* zero, another exit status, or sh could not be run.  The command is taken
\* not to change the matched files.
ValidateChange == {"pass", "fail", "error"}

\* Lines 165-181: without a command the change is accepted; with one, it is
\* run: Ok(true) returns, Ok(false) retries, Err is propagated.
Validate ==
    /\ pf_pc = "validate"
    /\ IF ~validate_command
       THEN /\ Return("ok")
            /\ UNCHANGED trace
       ELSE \E r \in ValidateChange :
               /\ trace' = Log("validate", r = "pass", <<r>>)
               /\ pf_pc' = AfterValidate(r)
               /\ result' = CASE r = "pass" -> "ok"
                              [] r = "error" -> "err_validator"
                              [] r = "fail" -> result
    /\ UNCHANGED << mainVars, disk, localVars, effects >>

\* Line 173: the text the restore step writes.
RestoredTextCurrent == current_content

RestoredText == original_content

\* Lines 173-174 with the result of fs::write dropped.
RestoreIgnoreError ==
    /\ pf_pc = "restore"
    /\ effects' = effects \cup {"write"}
    /\ \E ok \in BOOLEAN :
          /\ trace' = Log("restore", ok, RestoredText)
          /\ IF ok
             THEN /\ disk' = [disk EXCEPT ![file] = RestoredText]
                  /\ pf_pc' = "readback"
                  /\ UNCHANGED result
             ELSE /\ pf_pc' = "readback"
                  /\ UNCHANGED result
                  /\ \E left \in AfterFailedWrite(file) :
                        disk' = [disk EXCEPT ![file] = left]
    /\ UNCHANGED << mainVars, localVars >>

\* Lines 173-174: the original content is written back.
Restore ==
    /\ pf_pc = "restore"
    /\ effects' = effects \cup {"write"}
    /\ \E ok \in BOOLEAN :
          /\ trace' = Log("restore", ok, RestoredText)
          /\ IF ok
             THEN /\ disk' = [disk EXCEPT ![file] = RestoredText]
                  /\ pf_pc' = "readback"
                  /\ UNCHANGED result
             ELSE /\ Return("err_io")
                  /\ \E left \in AfterFailedWrite(file) :
                        disk' = [disk EXCEPT ![file] = left]
    /\ UNCHANGED << mainVars, localVars >>

\* Line 184: the text that becomes current_content.
ReadBackTextOriginal == original_content

ReadBackText == disk[file]

\* Line 184: the file is read again for the next attempt.
ReadBack ==
    /\ pf_pc = "readback"
    /\ effects' = effects \cup {"read"}
    /\ \E ok \in BOOLEAN :
          /\ trace' = Log("readback", ok, ReadBackText)
          /\ IF ok
             THEN /\ current_content' = ReadBackText
                  /\ attempt' = attempt + 1
                  /\ pf_pc' = "loop_head"
                  /\ UNCHANGED result
             ELSE /\ Return("err_io")
                  /\ UNCHANGED << current_content, attempt >>
    /\ UNCHANGED << mainVars, disk, file, original_content, output,
                    transformed_content >>

\* ---------------------------------------------------------------- specifications
Next ==
    \/ ParseArgs
    \/ LoadInstruction
    \/ LoadApiKey
    \/ ExpandGlob
    \/ GlobEntryError
    \/ LoopExit
    \/ HandleReturn
    \/ ReadOriginal
    \/ LoopHead
    \/ Send
    \/ Extract
    \/ Write
    \/ Validate
    \/ Restore
    \/ ReadBack

Spec == Init /\ [][Next]_vars

\* Every text of at most MaxLen characters.
Texts == UNION { [1..n -> Alphabet] : n \in 0..MaxLen }

\* The first attempt on the first file has received some completion text.
InitExtract ==
    /\ pc = "loop"
    /\ n_retries \in 1..MaxRetries
    /\ validate_command \in BOOLEAN
    /\ idx = 1
    /\ disk = [f \in Files |-> InitialContent(f)]
    /\ results = [f \in Files |-> "none"]
    /\ pf_pc = "extract"
    /\ file = 1
    /\ original_content = InitialContent(1)
    /\ current_content = InitialContent(1)
    /\ attempt = 0
    /\ output \in Texts
    /\ transformed_content = NoText
    /\ result = "none"
    /\ trace = << [op |-> "snapshot", k |-> 1, ok |-> TRUE, content |-> InitialContent(1)],
                  [op |-> "complete", k |-> 1, ok |-> TRUE, content |-> InitialContent(1)] >>
    /\ effects = {"read", "complete"}

NextExtract == Extract

SpecExtract == InitExtract /\ [][NextExtract]_vars

\* ---------------------------------------------------------------- properties
\* process_file has returned to the loop of main, which has not yet gone on.
Returned == pf_pc = "returned"

LastEvent == trace[Len(trace)]

Count(op) == Cardinality({ i \in DOMAIN trace : trace[i].op = op })

\* No read or write of the target file has failed.
NoIoFailure ==
    \A i \in DOMAIN trace :
        trace[i].op \in {"snapshot", "write", "restore", "readback"} => trace[i].ok

\* Every completion call and every extraction has succeeded.
NoAttemptFailure ==
    \A i \in DOMAIN trace : trace[i].op \in {"complete", "extract"} => trace[i].ok

\* The validator could be run every time, and it failed every time.
ValidatorAlwaysFailed ==
    \A i \in DOMAIN trace : trace[i].op = "validate" => trace[i].content = <<"fail">>

\* The states in which a start-up failure has ended the run.
Aborted == pc \in {"aborted_args", "aborted_instruction", "aborted_apikey", "aborted_glob"}

\* C1: with a validator that fails on every run, a retry count N >= 1 and
\* every completion, extraction and file operation succeeding, process_file
\* returns after exactly N completion calls with the file holding the content
\* read at the start, and the loop of main then goes on to the next entry.
C1_Restoration ==
    [][ ( /\ Returned
          /\ validate_command
          /\ n_retries >= 1
          /\ ValidatorAlwaysFailed
          /\ NoAttemptFailure
          /\ NoIoFailure )
        => ( /\ Count("complete") = n_retries
             /\ Count("validate") = n_retries
             /\ disk[file] = trace[1].content
             /\ result = "Exceeded retry limit"
             /\ pc' = "loop"
             /\ pf_pc' = "idle"
             /\ idx' = file + 1
             /\ disk' = disk ) ]_vars

C1_Witness ==
    /\ Returned
    /\ validate_command
    /\ n_retries = 2
    /\ NoAttemptFailure
    /\ NoIoFailure
    /\ Count("validate") = 2
    /\ ValidatorAlwaysFailed
    /\ disk[file] = InitialContent(file)

\* C2: once the validator has passed on attempt k (after failing on the
\* attempts before), process_file has returned success, nothing of an attempt
\* k+1 follows, k completion calls were made, and the file holds the content
\* extracted from the completion of attempt k.
C2_ValidatedStops ==
    \A i \in DOMAIN trace :
        (trace[i].op = "validate" /\ trace[i].ok) =>
            /\ i = Len(trace)
            /\ Returned
            /\ result = "ok"
            /\ trace[i].k = attempt + 1
            /\ trace[i].k <= n_retries
            /\ Count("complete") = trace[i].k
            /\ Count("write") = trace[i].k
            /\ Count("validate") = trace[i].k
            /\ \A j \in 1..(i - 1) : trace[j].op = "validate" => ~trace[j].ok
            /\ trace[i - 2] = [op |-> "extract", k |-> trace[i].k, ok |-> TRUE,
                                content |-> Extracted(output).content]
            /\ disk[file] = trace[i - 2].content

C2_Witness ==
    /\ Returned
    /\ result = "ok"
    /\ validate_command
    /\ attempt = 1
    /\ LastEvent.op = "validate"
    /\ LastEvent.ok
    /\ trace[Len(trace) - 2].content = <<"b">>
    /\ disk[file] = <<"b">>

\* C3: with no validator configured and every step succeeding, process_file
\* returns success after exactly one completion call, whatever the retry
\* count is, and the file holds the content extracted from that completion.
C3_NoValidatorOneRoundTrip ==
    (Returned /\ ~validate_command /\ NoAttemptFailure /\ NoIoFailure) =>
        /\ Count("complete") = 1
        /\ result = "ok"
        /\ attempt = 0
        /\ disk[file] = transformed_content

\* C4: when process_file returns with a validator configured and no read or
\* write of the file has failed, the file holds the original content or a
\* candidate that passed validation.
C4_FinalState ==
    (Returned /\ validate_command /\ NoIoFailure) =>
        \/ disk[file] = trace[1].content
        \/ /\ LastEvent.op = "validate"
           /\ LastEvent.ok
           /\ disk[file] = transformed_content

\* C5: a failed completion call or a failed extraction at attempt k < N does
\* not end the processing of the file: process_file returns on such a failure
\* only when the attempt is the last one.
C5_FailureConsumesOneAttempt ==
    (Returned /\ LastEvent.op \in {"complete", "extract"} /\ ~LastEvent.ok) =>
        LastEvent.k = n_retries

\* The text has the begin marker and, somewhere after the first one, the end marker.
HasEndAfterBegin(text) ==
    /\ Find(text, BeginTag) > 0
    /\ FindFrom(text, EndTag, Find(text, BeginTag) + 1) > 0

\* The trimmed text between the first begin marker and the first end marker after it.
BetweenMarkers(text) ==
    Trim(SubSeq(text, Find(text, BeginTag) + 1,
                FindFrom(text, EndTag, Find(text, BeginTag) + 1) - 1))

\* The extraction step has just run on output.
ExtractionDone == trace # <<>> /\ LastEvent.op = "extract"

\* C6: for every completion text with the begin marker and an end marker
\* after it, extraction yields the trimmed text between the first begin
\* marker and the first end marker after it.
C6_ExtractionCorrect ==
    (ExtractionDone /\ HasEndAfterBegin(output)) =>
        /\ pf_pc = "write"
        /\ transformed_content = BetweenMarkers(output)

\* C7: for every completion text without the begin marker, without the end
\* marker, or with the begin marker only after the end marker, extraction
\* ends the attempt with an error value: the run does not crash, no content
\* is produced and the file is not written.
C7_ExtractionFailureIsError ==
    (ExtractionDone /\ ~HasEndAfterBegin(output)) =>
        /\ pc # "panicked"
        /\ Returned
        /\ result \in {"Start tag not found", "End tag not found"}
        /\ disk[file] = current_content

\* C8: however the processing of a file fails, the entries after it are
\* still processed: the run does not end with an entry left unprocessed.
C8_BatchIsolation ==
    (pc \notin {"args", "instruction", "apikey", "glob", "loop"} /\ ~Aborted) =>
        \A f \in Files : results[f] # "none"

\* C9: when a start-up failure (retry count, instruction file, credential,
\* glob pattern) ends the run, no target file has been read or written and
\* no completion has been requested.
C9_StartupFailuresFirst ==
    Aborted =>
        /\ effects = {}
        /\ idx = 1
        /\ pf_pc = "idle"
        /\ trace = <<>>
        /\ disk = [f \in Files |-> InitialContent(f)]

C9_Witness == pc = "aborted_apikey" /\ n_retries = MaxRetries /\ validate_command

\* C10: the original content is read once, as the first operation on the
\* file and so before any write, it keeps that value for the rest of the
\* processing of the file, and the restore step writes exactly that value.
C10_OriginalContent ==
    (trace # <<>> /\ trace[1].ok) =>
        /\ trace[1].op = "snapshot"
        /\ Count("snapshot") = 1
        /\ original_content = trace[1].content
        /\ \A i \in DOMAIN trace :
              trace[i].op = "restore" => trace[i].content = trace[1].content
        /\ (LastEvent.op = "restore" /\ LastEvent.ok) => disk[file] = trace[1].content

C10_Witness ==
    /\ trace # <<>>
    /\ LastEvent.op = "restore"
    /\ LastEvent.ok
    /\ attempt = 1
    /\ current_content # original_content
    /\ disk[file] = original_content

\* The completion calls among the first i events.
CompletionsUpTo(i) == Cardinality({ j \in 1..i : trace[j].op = "complete" })

\* C11: at most N completion calls are made for a file, the attempts are
\* numbered 1, 2, ... with none skipped or repeated, and within an attempt
\* the steps come in the order completion call, extraction, write, validator.
C11_AttemptOrder ==
    /\ Count("complete") <= n_retries
    /\ \A i \in DOMAIN trace :
          trace[i].op = "complete" => trace[i].k = CompletionsUpTo(i)
    /\ \A i \in 2..Len(trace) :
          LET a == trace[i - 1]
              b == trace[i]
          IN  /\ b.op = "complete" =>
                    /\ a.ok
                    /\ \/ a.op = "snapshot" /\ b.k = 1
                       \/ a.op = "readback" /\ b.k = a.k + 1
              /\ b.op = "extract" => (a.op = "complete" /\ a.ok /\ b.k = a.k)
              /\ b.op = "write" => (a.op = "extract" /\ a.ok /\ b.k = a.k)
              /\ b.op = "validate" => (a.op = "write" /\ a.ok /\ b.k = a.k)

C11_Witness ==
    /\ n_retries = 2
    /\ Count("complete") = 2
    /\ trace # <<>>
    /\ LastEvent.op = "validate"
    /\ LastEvent.k = 2

\* C12: when the validator fails at attempt k < N the file is not restored:
\* the candidate written at attempt k stays on disk, is read back, and is
\* the content the prompt of attempt k+1 embeds.
C12_FeedbackOnRetry ==
    \A i \in DOMAIN trace :
        (trace[i].op = "validate" /\ trace[i].content = <<"fail">> /\ trace[i].k < n_retries) =>
            LET candidate == trace[i - 1].content
            IN  /\ trace[i - 1].op = "write"
                /\ (\A j \in (i + 1)..Len(trace) : trace[j].op # "write")
                      => disk[file] = candidate
                /\ i + 1 <= Len(trace) =>
                      /\ trace[i + 1].op = "readback"
                      /\ trace[i + 1].content = candidate
                /\ i + 2 <= Len(trace) =>
                      /\ trace[i + 2].op = "complete"
                      /\ trace[i + 2].k = trace[i].k + 1
                      /\ trace[i + 2].content = candidate

C12_Witness ==
    /\ trace # <<>>
    /\ LastEvent.op = "complete"
    /\ LastEvent.k = 2
    /\ LastEvent.content = <<"b">>
    /\ LastEvent.content # original_content
    /\ disk[file] = <<"b">>

\* The events of one kind logged for attempt k.
EventsOf(op, k) == { i \in DOMAIN trace : trace[i].op = op /\ trace[i].k = k }

\* C13: an attempt whose extraction succeeds makes exactly one write, of the
\* extracted content; an attempt whose completion or extraction fails makes
\* none; the original content is written at most once, and only with a
\* validator configured after the validator failed on attempt N; so a file is
\* written at most N+1 times.
C13_WriteDiscipline ==
    /\ \A i \in DOMAIN trace :
          /\ (trace[i].op = "extract" /\ trace[i].ok) =>
                IF i = Len(trace)
                THEN pf_pc = "write"
                ELSE /\ trace[i + 1].op = "write"
                     /\ trace[i + 1].k = trace[i].k
                     /\ trace[i + 1].content = trace[i].content
          /\ (trace[i].op \in {"complete", "extract"} /\ ~trace[i].ok) =>
                /\ i = Len(trace)
                /\ EventsOf("write", trace[i].k) = {}
                /\ pf_pc \in {"returned", "panicked"}
          /\ trace[i].op = "write" =>
                /\ trace[i - 1].op = "extract"
                /\ trace[i - 1].ok
                /\ Cardinality(EventsOf("write", trace[i].k)) = 1
          /\ trace[i].op = "restore" =>
                /\ validate_command
                /\ trace[i - 1].op = "validate"
                /\ trace[i - 1].content = <<"fail">>
                /\ trace[i - 1].k = n_retries
                /\ trace[i].content = trace[1].content
    /\ Count("restore") <= 1
    /\ Count("write") + Count("restore") <= n_retries + 1

C13_Witness ==
    /\ n_retries = 2
    /\ Count("write") = 2
    /\ Count("restore") = 1
    /\ LastEvent.op = "restore"
    /\ LastEvent.ok
    /\ disk[file] = original_content

\* A read or a write of the target file has failed.
IoFailureAt(i) ==
    /\ trace[i].op \in {"snapshot", "write", "restore", "readback"}
    /\ ~trace[i].ok

\* C14: a failed read or write of the target file (snapshot, candidate
\* write, restore write, read-back) ends the processing of the file: nothing
\* follows it, process_file returns the error, and the loop of main records
\* it and goes on.
C14_FileErrorsAreFatal ==
    [][ /\ \A i \in DOMAIN trace :
              IoFailureAt(i) => (i = Len(trace) /\ Returned /\ result = "err_io")
        /\ (Returned /\ IoFailureAt(Len(trace))) =>
              /\ results'[file] = "err_io"
              /\ pf_pc' = "idle"
              /\ idx' = file + 1
              /\ trace' = <<>>
              /\ disk' = disk
              /\ effects' = effects ]_vars

C14_Witness ==
    /\ Returned
    /\ result = "err_io"
    /\ LastEvent.op = "restore"
    /\ ~LastEvent.ok
    /\ disk[file] = transformed_content

\* C15: with no validator configured, process_file never returns the
\* retry-limit error, whatever retry count the program has accepted.
C15_NoExhaustionWithoutValidator ==
    (Returned /\ ~validate_command) => result # "Exceeded retry limit"

\* The validator has failed on attempt N (event i).
ValidatorFailedOnLastAttempt(i) ==
    /\ trace[i].op = "validate"
    /\ trace[i].content = <<"fail">>
    /\ trace[i].k = n_retries

\* C16: when the validator fails on attempt N the restore write comes next;
\* process_file then returns an error, never success, and the loop of main
\* records it and goes on to the next entry.
C16_ExhaustionOrdering ==
    [][ \A i \in DOMAIN trace :
          ValidatorFailedOnLastAttempt(i) =>
             /\ IF i = Len(trace)
                THEN pf_pc = "restore"
                ELSE trace[i + 1].op = "restore"
             /\ Returned =>
                   /\ result \in {"Exceeded retry limit", "err_io"}
                   /\ result = "Exceeded retry limit" =>
                         (trace[i + 1].ok /\ disk[file] = original_content)
                   /\ results'[file] = result
                   /\ pc' = "loop"
                   /\ pf_pc' = "idle"
                   /\ idx' = file + 1 ]_vars

C16_Witness ==
    /\ Returned
    /\ result = "Exceeded retry limit"
    /\ n_retries = 2
    /\ file = 1
    /\ Count("restore") = 1
    /\ ValidatorFailedOnLastAttempt(Len(trace) - 2)
    /\ disk[file] = original_content

\* C17: process_file returns success only when the last write to the file
\* was the content extracted in the current attempt and either no validator
\* is configured or the validator run after that write passed; never after
\* a restore write or a failed last validator run.
C17_SuccessOnlyForAccepted ==
    (Returned /\ result = "ok") =>
        LET w == IF validate_command THEN Len(trace) - 1 ELSE Len(trace)
        IN  /\ w >= 3
            /\ trace[w] = [op |-> "write", k |-> attempt + 1, ok |-> TRUE,
                           content |-> Extracted(output).content]
            /\ trace[w - 1].op = "extract"
            /\ trace[w - 1].k = attempt + 1
            /\ disk[file] = trace[w].content
            /\ validate_command =>
                  (LastEvent.op = "validate" /\ LastEvent.ok /\ LastEvent.k = attempt + 1)
            /\ Count("restore") = 0

C17_Witness ==
    /\ Returned
    /\ result = "ok"
    /\ validate_command
    /\ attempt = 0
    /\ LastEvent.op = "validate"
    /\ LastEvent.ok
    /\ disk[file] = <<"a">>

\* C18: the files are processed one after another: process_file runs for the
\* entry the iterator is at, every earlier entry has ended, no later file has
\* been touched, and only the file being processed is ever written, so what
\* an earlier file was left with stays while a later one is validated.
C18_Sequential ==
    [][ /\ pf_pc # "idle" => (file = idx /\ results[file] = "none")
        /\ \A f \in Files :
              /\ f < idx => results[f] # "none"
              /\ f > idx => (results[f] = "none" /\ disk[f] = InitialContent(f))
              /\ disk'[f] # disk[f] => (f = file /\ pf_pc \in {"write", "restore"})
        /\ (pf_pc = "idle" /\ pf_pc' # "idle") =>
              (file' = idx /\ \A f \in Files : results[f] = "none" <=> f >= idx) ]_vars

C18_Witness ==
    /\ pf_pc = "validate"
    /\ validate_command
    /\ file = 2
    /\ results[1] = "ok"
    /\ disk[1] = <<"a">>
    /\ disk[2] = <<"b">>

\* Every step of main and of process_file that can be taken is taken: the
\* completion calls and the validator runs return.
SpecFair == Spec /\ WF_vars(Next)

\* The run has ended: normally, by a start-up failure, or by a panic.
Ended == pc \in {"done", "panicked"} \/ Aborted

\* Every run ends.
Terminates == <>Ended

\* C19: once the loop over the entries has started, the processing of every
\* file reaches a terminal state and the run ends with every entry processed.
C19_Termination ==
    (pc = "loop") ~> (pc = "done" /\ \A f \in Files : results[f] # "none")

====
